---- MODULE Spec2Model ----
(***************************************************************************)
(* A model of JsonErrorRepository (src/data/json_error_repository.py): the *)
(* JSON loader with its list of fallback locations, and the query          *)
(* operations over the two loaded dictionaries; and of the standard mode   *)
(* of ErrorSelectorUI (src/ui/error_selector.py), which maps the problem   *)
(* areas checked on the page to a selection of categories.                 *)
(*                                                                         *)
(* Python values are modelled as follows.                                  *)
(*   str   text that is only compared for equality (category names,       *)
(*         dictionary keys, implementation guides) is a TLA+ string; text  *)
(*         that is lower-cased or searched (error names, descriptions,     *)
(*         the difficulty) is a sequence of one-character strings.         *)
(*   list  a sequence.                                                     *)
(*   dict  with string keys written by the program or the caller: a        *)
(*         function whose DOMAIN is the set of keys present.  A dict       *)
(*         whose iteration order matters (the loaded files) is a sequence  *)
(*         of [key, value] entries with distinct keys, in insertion order. *)
(*   None  the record NoneValue; an optional argument is NoneValue or      *)
(*         Some(v).                                                        *)
(*   f-string  the sequence of its pieces: the literal parts, the          *)
(*         characters of a formatted text, a formatted category name.      *)
(***************************************************************************)
EXTENDS Integers, Sequences, FiniteSets, TLC

VARIABLES
    fs,                     \* the file system: path -> file
    pc,                     \* "new" before __init__ has run; then "returned"
                            \* when an operation has just returned and
                            \* "ready" between two calls
    build_errors,           \* self.build_errors
    checkstyle_errors,      \* self.checkstyle_errors
    build_categories,       \* self.build_categories
    checkstyle_categories,  \* self.checkstyle_categories
    io_log,                 \* the file-system calls of the last load, in order
    call,                   \* the last operation called, with its arguments
    ret,                    \* what that operation returned
    problem_areas,          \* st.session_state.problem_areas
    selected_error_categories   \* st.session_state.selected_error_categories

vars == <<fs, pc, build_errors, checkstyle_errors, build_categories,
          checkstyle_categories, io_log, call, ret,
          problem_areas, selected_error_categories>>

session == <<problem_areas, selected_error_categories>>

attrs == <<build_errors, checkstyle_errors, build_categories,
           checkstyle_categories>>

-----------------------------------------------------------------------------
(* Bounds *)

\* The largest count argument passed to the sampling operations.
MaxCount == 3

\* The largest number of files present among the candidate locations.
MaxFiles == 3

-----------------------------------------------------------------------------
(* Python values *)

NoneValue == [none |-> TRUE]

Some(v) == [none |-> FALSE, value |-> v]

\* dict.get(key, default) on a dict with string keys
DictGet(d, k, default) == IF k \in DOMAIN d THEN d[k] ELSE default

Min(a, b) == IF a <= b THEN a ELSE b

Max(a, b) == IF a >= b THEN a ELSE b

\* The lists of k distinct positions of a list of length n, in every order.
Arrangements(n, k) ==
    { p \in [1..k -> 1..n] : \A i, j \in 1..k : i # j => p[i] # p[j] }

\* random.sample(population, k) for 0 <= k <= len(population): every list of
\* k elements taken at distinct positions, in every order.
RandomSample(population, k) ==
    { [i \in 1..k |-> population[p[i]]] : p \in Arrangements(Len(population), k) }

\* random.randint(a, b)
RandInt(a, b) == a..b

-----------------------------------------------------------------------------
(* Ordered dictionaries: the loaded JSON objects *)

Keys(d) == [i \in 1..Len(d) |-> d[i].key]

HasKey(d, k) == \E i \in 1..Len(d) : d[i].key = k

Lookup(d, k) == d[CHOOSE i \in 1..Len(d) : d[i].key = k].value

\* d[k] = v: a new key is appended, an old key keeps its place.
SetItem(d, k, v) ==
    IF HasKey(d, k)
    THEN [i \in 1..Len(d) |-> IF d[i].key = k THEN [key |-> k, value |-> v] ELSE d[i]]
    ELSE Append(d, [key |-> k, value |-> v])

\* json.load of an object given by its members in file order: a name that
\* occurs twice keeps its first place and its last value.
RECURSIVE JsonLoadMembers(_, _)
JsonLoadMembers(members, d) ==
    IF members = <<>> THEN d
    ELSE JsonLoadMembers(Tail(members),
                         SetItem(d, Head(members).key, Head(members).value))

JsonLoad(file) == JsonLoadMembers(file.members, <<>>)

-----------------------------------------------------------------------------
(* The data files *)

\* Files: absent, present but not parsable as JSON, or a JSON object.
MissingFile == [exists |-> FALSE, valid |-> FALSE, members |-> <<>>]

CorruptFile == [exists |-> TRUE, valid |-> FALSE, members |-> <<>>]

JsonFile(members) == [exists |-> TRUE, valid |-> TRUE, members |-> members]

BuildFileA == JsonFile(<<
    [key |-> "RuntimeErrors", value |-> <<
        [error_name |-> <<"N","p","e">>, description |-> <<"n","u","l","l">>,
         implementation_guide |-> "g1"],
        [error_name |-> <<"D","i","v">>, description |-> <<"Z","e","r","o">>] >>],
    [key |-> "CompileTimeErrors", value |-> <<
        [error_name |-> <<"N","p","e">>, description |-> <<"d","u","p">>,
         check_name |-> <<"F","i","n">>],
        [error_name |-> <<"T","y","p">>, description |-> <<"r","e","t">>,
         implementation_guide |-> "g5"] >>] >>)

\* "Misc" occurs twice in this file.
BuildFileB == JsonFile(<<
    [key |-> "Misc", value |-> <<
        [error_name |-> <<"D","i","v">>, description |-> <<"o","l","d">>] >>],
    [key |-> "LogicalErrors", value |-> <<
        [error_name |-> <<"O","f","f">>, description |-> <<"o","n","e">>,
         implementation_guide |-> ""] >>],
    [key |-> "Misc", value |-> <<
        [error_name |-> <<"E","q">>, description |-> <<"R","e","f">>],
        [error_name |-> <<"R","e","t">>, description |-> <<"n","o">>],
        [error_name |-> <<"E","q">>, description |-> <<"t","w","o">>] >>] >>)

CheckstyleFileA == JsonFile(<<
    [key |-> "NamingConventionChecks", value |-> <<
        [check_name |-> <<"C","o","n">>, description |-> <<"u","p">>,
         implementation_guide |-> "h1"],
        [check_name |-> <<"F","i","n">>, description |-> <<"n","o">>] >>],
    [key |-> "RuntimeErrors", value |-> <<
        [check_name |-> <<"N","p","e">>, description |-> <<"c","k">>] >>],
    [key |-> "Javadoc", value |-> <<
        [check_name |-> <<"C","o","n">>, description |-> <<"d","o","c">>] >>] >>)

CheckstyleFileB == JsonFile(<<
    [key |-> "WhitespaceAndFormattingChecks", value |-> <<
        [check_name |-> <<"T","a","b">>, description |-> <<"t","a","b">>] >>],
    [key |-> "Javadoc", value |-> <<>>] >>)

\* The constructor's default arguments.
build_errors_path == "build_errors.json"

checkstyle_errors_path == "checkstyle_error.json"

\* Paths are sequences of components; current_dir is the module's directory
\* and parent_dir its parent.
_get_potential_file_paths(file_name) == <<
    <<file_name>>,
    <<"current_dir", file_name>>,
    <<"parent_dir", file_name>>,
    <<"parent_dir", "data", file_name>>,
    <<"parent_dir", "resources", file_name>>,
    <<"parent_dir", "assets", file_name>> >>

Range(s) == { s[i] : i \in 1..Len(s) }

BuildPaths == Range(_get_potential_file_paths(build_errors_path))

CheckstylePaths == Range(_get_potential_file_paths(checkstyle_errors_path))

AllPaths == BuildPaths \cup CheckstylePaths

\* The file a path holds when it holds version v ("A" or "B") of its data
\* file or is not parsable ("corrupt").
FileOf(path, v) ==
    IF v = "corrupt" THEN CorruptFile
    ELSE IF path \in BuildPaths
         THEN (IF v = "A" THEN BuildFileA ELSE BuildFileB)
         ELSE (IF v = "A" THEN CheckstyleFileA ELSE CheckstyleFileB)

\* The file systems with files at the paths of `present`, each of one of `kinds`.
FileSystems(present, kinds) ==
    { [p \in AllPaths |-> IF p \in present THEN FileOf(p, c[p]) ELSE MissingFile] :
        c \in [present -> kinds] }

-----------------------------------------------------------------------------
(* Loading: __init__, load_error_data, _load_build_errors,                 *)
(* _load_checkstyle_errors                                                 *)

\* A loader whose try/except sits inside the loop: a file that cannot be
\* parsed is skipped and the next candidate is tried.
RECURSIVE LoadFromSkippingCorrupt(_, _, _, _)
LoadFromSkippingCorrupt(files, file_paths, i, log) ==
    IF i > Len(file_paths)
    THEN [ok |-> FALSE, loaded |-> FALSE, errors |-> <<>>, categories |-> <<>>,
          log |-> log]
    ELSE LET file_path == file_paths[i]
             probed == Append(log, [op |-> "exists", path |-> file_path])
             opened == Append(probed, [op |-> "open", path |-> file_path])
         IN  IF files[file_path].exists
             THEN IF files[file_path].valid
                  THEN [ok |-> TRUE, loaded |-> TRUE,
                        errors |-> JsonLoad(files[file_path]),
                        categories |-> Keys(JsonLoad(files[file_path])),
                        log |-> opened]
                  ELSE LoadFromSkippingCorrupt(files, file_paths, i + 1, opened)
             ELSE LoadFromSkippingCorrupt(files, file_paths, i + 1, probed)

\* The loop of a loader over file_paths from position i on, with the calls
\* made so far in log.  ok is the value returned; loaded says whether the two
\* attributes were assigned, and to what.
RECURSIVE LoadFrom(_, _, _, _)
LoadFrom(files, file_paths, i, log) ==
    IF i > Len(file_paths)
    THEN [ok |-> FALSE, loaded |-> FALSE, errors |-> <<>>, categories |-> <<>>,
          log |-> log]
    ELSE LET file_path == file_paths[i]
             probed == Append(log, [op |-> "exists", path |-> file_path])
             opened == Append(probed, [op |-> "open", path |-> file_path])
         IN  IF files[file_path].exists
             THEN IF files[file_path].valid
                  THEN [ok |-> TRUE, loaded |-> TRUE,
                        errors |-> JsonLoad(files[file_path]),
                        categories |-> Keys(JsonLoad(files[file_path])),
                        log |-> opened]
                  \* json.load raises; the except clause returns False
                  ELSE [ok |-> FALSE, loaded |-> FALSE, errors |-> <<>>,
                        categories |-> <<>>, log |-> opened]
             ELSE LoadFrom(files, file_paths, i + 1, probed)

_load_build_errors(files, log) ==
    LoadFrom(files, _get_potential_file_paths(build_errors_path), 1, log)

_load_checkstyle_errors(files, log) ==
    LoadFrom(files, _get_potential_file_paths(checkstyle_errors_path), 1, log)

\* load_error_data written as
\*   return self._load_build_errors() and self._load_checkstyle_errors()
\* which skips the second loader when the first fails.
load_error_data_short_circuit(files, old) ==
    LET build_loaded == _load_build_errors(files, <<>>)
        checkstyle_loaded ==
            IF build_loaded.ok
            THEN _load_checkstyle_errors(files, build_loaded.log)
            ELSE [ok |-> FALSE, loaded |-> FALSE, errors |-> <<>>,
                  categories |-> <<>>, log |-> build_loaded.log]
    IN  [value |-> build_loaded.ok /\ checkstyle_loaded.ok,
         build_loaded |-> build_loaded.ok,
         checkstyle_loaded |-> checkstyle_loaded.ok,
         build_errors |-> IF build_loaded.loaded THEN build_loaded.errors
                          ELSE old[1],
         checkstyle_errors |-> IF checkstyle_loaded.loaded
                               THEN checkstyle_loaded.errors ELSE old[2],
         build_categories |-> IF build_loaded.loaded THEN build_loaded.categories
                              ELSE old[3],
         checkstyle_categories |-> IF checkstyle_loaded.loaded
                                   THEN checkstyle_loaded.categories ELSE old[4],
         log |-> checkstyle_loaded.log]

\* load_error_data on a repository whose attributes are old: both loaders
\* run, then the two results are combined.  build_loaded and
\* checkstyle_loaded are its two locals.
load_error_data(files, old) ==
    LET build_loaded == _load_build_errors(files, <<>>)
        checkstyle_loaded == _load_checkstyle_errors(files, build_loaded.log)
    IN  [value |-> build_loaded.ok /\ checkstyle_loaded.ok,
         build_loaded |-> build_loaded.ok,
         checkstyle_loaded |-> checkstyle_loaded.ok,
         build_errors |-> IF build_loaded.loaded THEN build_loaded.errors
                          ELSE old[1],
         checkstyle_errors |-> IF checkstyle_loaded.loaded
                               THEN checkstyle_loaded.errors ELSE old[2],
         build_categories |-> IF build_loaded.loaded THEN build_loaded.categories
                              ELSE old[3],
         checkstyle_categories |-> IF checkstyle_loaded.loaded
                                   THEN checkstyle_loaded.categories ELSE old[4],
         log |-> checkstyle_loaded.log]

\* JsonErrorRepository(): the attributes start empty, then load_error_data
\* runs and its result is dropped.
Construct ==
    /\ pc = "new"
    /\ LET r == load_error_data(fs, <<<<>>, <<>>, <<>>, <<>>>>)
       IN  /\ build_errors' = r.build_errors
           /\ checkstyle_errors' = r.checkstyle_errors
           /\ build_categories' = r.build_categories
           /\ checkstyle_categories' = r.checkstyle_categories
           /\ io_log' = r.log
           /\ ret' = [raised |-> FALSE, value |-> NoneValue,
                      build_loaded |-> r.build_loaded,
                      checkstyle_loaded |-> r.checkstyle_loaded]
    /\ pc' = "returned"
    /\ call' = [op |-> "__init__"]
    /\ UNCHANGED <<fs, session>>

\* repo.load_error_data() on a constructed repository
LoadErrorData ==
    /\ pc = "ready"
    /\ LET r == load_error_data(fs, attrs)
       IN  /\ build_errors' = r.build_errors
           /\ checkstyle_errors' = r.checkstyle_errors
           /\ build_categories' = r.build_categories
           /\ checkstyle_categories' = r.checkstyle_categories
           /\ io_log' = r.log
           /\ ret' = [raised |-> FALSE, value |-> r.value,
                      build_loaded |-> r.build_loaded,
                      checkstyle_loaded |-> r.checkstyle_loaded]
    /\ call' = [op |-> "load_error_data"]
    /\ pc' = "returned"
    /\ UNCHANGED <<fs, session>>

\* The caller has taken the result and is free to call again.
Continue ==
    /\ pc = "returned"
    /\ pc' = "ready"
    /\ call' = [op |-> "none"]
    /\ ret' = [raised |-> FALSE, value |-> NoneValue]
    /\ UNCHANGED <<fs, build_errors, checkstyle_errors, build_categories,
                   checkstyle_categories, io_log, session>>

-----------------------------------------------------------------------------
(* Text *)

\* str.lower() on one character
LowerChar(c) ==
    CASE c = "A" -> "a" [] c = "B" -> "b" [] c = "C" -> "c" [] c = "D" -> "d"
      [] c = "E" -> "e" [] c = "F" -> "f" [] c = "G" -> "g" [] c = "H" -> "h"
      [] c = "I" -> "i" [] c = "J" -> "j" [] c = "K" -> "k" [] c = "L" -> "l"
      [] c = "M" -> "m" [] c = "N" -> "n" [] c = "O" -> "o" [] c = "P" -> "p"
      [] c = "Q" -> "q" [] c = "R" -> "r" [] c = "S" -> "s" [] c = "T" -> "t"
      [] c = "U" -> "u" [] c = "V" -> "v" [] c = "W" -> "w" [] c = "X" -> "x"
      [] c = "Y" -> "y" [] c = "Z" -> "z" [] OTHER -> c

\* str.lower()
Lower(text) == [i \in 1..Len(text) |-> LowerChar(text[i])]

\* `term in text` on strings
Contains(text, term) ==
    \E k \in 0..(Len(text) - Len(term)) :
        \A i \in 1..Len(term) : text[k + i] = term[i]

Unknown == <<"U","n","k","n","o","w","n">>

-----------------------------------------------------------------------------
(* Results *)

Return(v) == [raised |-> FALSE, value |-> v]

\* An exception leaves the operation; exception is the class raised.
Raise(exception) == [raised |-> TRUE, exception |-> exception]

\* The dictionary the sampling operations build for a stored record.
\* Stored records follow the data model: a build record has error_name, a
\* checkstyle record check_name, and both have description.
ErrorEntry(type, category, name_key, error) ==
    [type |-> type,
     category |-> category,
     name |-> error[name_key],
     description |-> error["description"],
     implementation_guide |-> DictGet(error, "implementation_guide", "")]

EntriesOf(type, category, name_key, errors) ==
    [i \in 1..Len(errors) |-> ErrorEntry(type, category, name_key, errors[i])]

-----------------------------------------------------------------------------
(* get_random_errors_by_categories *)

\* The loop over the selected categories of one type: the entries of every
\* listed category the dictionary has, in the order listed.
RECURSIVE CollectEntries(_, _, _, _)
CollectEntries(errors, type, name_key, categories) ==
    IF categories = <<>> THEN <<>>
    ELSE LET category == Head(categories)
         IN  (IF HasKey(errors, category)
              THEN EntriesOf(type, category, name_key, Lookup(errors, category))
              ELSE <<>>)
             \o CollectEntries(errors, type, name_key, Tail(categories))

\* random.sample(all_errors, count) written as a draw with replacement,
\* [random.choice(all_errors) for _ in range(count)].
SampleOrAllWithReplacement(all_errors, count) ==
    IF all_errors # <<>>
    THEN IF Len(all_errors) <= count
         THEN {Return(all_errors)}
         ELSE IF count < 0
              THEN {Raise("ValueError")}
              ELSE {Return(s) : s \in [1..count -> Range(all_errors)]}
    ELSE {Return(<<>>)}

\* Lines 263-272: everything when there is no more than count, else a sample.
SampleOrAll(all_errors, count) ==
    IF all_errors # <<>>
    THEN IF Len(all_errors) <= count
         THEN {Return(all_errors)}
         ELSE IF count < 0
              THEN {Raise("ValueError")}
              ELSE {Return(s) : s \in RandomSample(all_errors, count)}
    ELSE {Return(<<>>)}

\* The results get_random_errors_by_categories can return.
get_random_errors_by_categories(selected_categories, count) ==
    LET all_errors ==
            CollectEntries(build_errors, "build", "error_name",
                           DictGet(selected_categories, "build", <<>>))
            \o CollectEntries(checkstyle_errors, "checkstyle", "check_name",
                              DictGet(selected_categories, "checkstyle", <<>>))
    IN  SampleOrAll(all_errors, count)

-----------------------------------------------------------------------------
(* get_errors_for_llm *)

Easy == <<"e","a","s","y">>

Medium == <<"m","e","d","i","u","m">>

Hard == <<"h","a","r","d">>

\* error_counts.get(difficulty.lower(), count)
AdjustedCount(count, difficulty) ==
    LET key == Lower(difficulty)
    IN  IF key = Easy THEN Max(2, count - 2)
        ELSE IF key = Medium THEN count
        ELSE IF key = Hard THEN count + 2
        ELSE count

\* The first record of the list whose name_key field is name, or 0.
FirstNamed(errors, name_key, name) ==
    LET found == { i \in 1..Len(errors) :
                     name_key \in DOMAIN errors[i] /\ errors[i][name_key] = name }
    IN  IF found = {} THEN 0 ELSE CHOOSE i \in found : \A j \in found : i <= j

\* _get_implementation_guide: the guide of the first record of that name in
\* the category, None when there is no such record or it has no guide.
_get_implementation_guide(error_type, error_name, category) ==
    LET errors == IF error_type = "build" THEN build_errors ELSE checkstyle_errors
        name_key == IF error_type = "build" THEN "error_name" ELSE "check_name"
    IN  IF error_type \in {"build", "checkstyle"} /\ HasKey(errors, category)
        THEN LET i == FirstNamed(Lookup(errors, category), name_key, error_name)
             IN  IF i = 0 THEN NoneValue
                 ELSE IF "implementation_guide" \in DOMAIN Lookup(errors, category)[i]
                      THEN Some(Lookup(errors, category)[i]["implementation_guide"])
                      ELSE NoneValue
        ELSE NoneValue

\* The f-string with "Build Error" whenever the type is not checkstyle.
ProblemDescriptionBuildUnlessCheckstyle(error) ==
    LET error_type == DictGet(error, "type", "Unknown")
        name == DictGet(error, "name", Unknown)
        description == DictGet(error, "description", <<>>)
        category == DictGet(error, "category", "")
    IN  <<IF error_type = "checkstyle" THEN "Checkstyle Error - " ELSE "Build Error - ">>
        \o name \o <<": ">> \o description
        \o <<" (Category: ", category, ")">>

\* One problem description, a text being the sequence of its pieces (the
\* characters of name and description, the category, the literal parts):
\* f"Build Error - {name}: {description} (Category: {category})" for a build
\* error and the same with "Checkstyle Error - " for any other.
ProblemDescription(error) ==
    LET error_type == DictGet(error, "type", "Unknown")
        name == DictGet(error, "name", Unknown)
        description == DictGet(error, "description", <<>>)
        category == DictGet(error, "category", "")
    IN  (IF error_type = "build"
         THEN <<"Build Error - ">> \o name \o <<": ">> \o description
              \o <<" (Category: ", category, ")">>
         ELSE <<"Checkstyle Error - ">> \o name \o <<": ">> \o description
              \o <<" (Category: ", category, ")">>)

ProblemDescriptions(errors) ==
    [i \in 1..Len(errors) |-> ProblemDescription(errors[i])]

\* Lines 312-315: the error after the loop body has run on it.
WithGuide(error) ==
    LET guide == _get_implementation_guide(DictGet(error, "type", "Unknown"),
                                           DictGet(error, "name", Unknown),
                                           DictGet(error, "category", ""))
    IN  IF ~guide.none /\ guide.value # ""
        THEN [k \in DOMAIN error \cup {"implementation_guide"} |->
                 IF k = "implementation_guide" THEN guide.value ELSE error[k]]
        ELSE error

\* The specific-errors branch cut to the adjusted count.
SpecificModeTruncated(specific_errors, adjusted_count) ==
    LET n == Min(Len(specific_errors), Max(adjusted_count, 0))
        selected_errors == [i \in 1..n |-> WithGuide(specific_errors[i])]
    IN  {Return([errors |-> selected_errors,
                 problem_descriptions |-> ProblemDescriptions(selected_errors)])}

\* Lines 300-322: the specific errors as they are, each with its guide filled in.
SpecificMode(specific_errors, adjusted_count) ==
    LET selected_errors ==
            [i \in 1..Len(specific_errors) |-> WithGuide(specific_errors[i])]
    IN  {Return([errors |-> selected_errors,
                 problem_descriptions |-> ProblemDescriptions(selected_errors)])}

\* Lines 341-372 for one type: for every listed category the dictionary has,
\* one or two of its records drawn at random, in the order listed.
RECURSIVE PickFromCategories(_, _, _, _)
PickFromCategories(errors, type, name_key, categories) ==
    IF categories = <<>> THEN {<<>>}
    ELSE LET category == Head(categories)
             rest == PickFromCategories(errors, type, name_key, Tail(categories))
             picked ==
                 IF HasKey(errors, category)
                 THEN LET category_errors == Lookup(errors, category)
                      IN  UNION { LET num_to_select == Min(Len(category_errors), n)
                                  IN  IF num_to_select > 0
                                      THEN { EntriesOf(type, category, name_key, s) :
                                               s \in RandomSample(category_errors,
                                                                  num_to_select) }
                                      ELSE {<<>>}
                                  : n \in RandInt(1, 2) }
                 ELSE {<<>>}
         IN  { p \o r : p \in picked, r \in rest }

\* Lines 374-378 written with >=: the sample is drawn whenever there are at
\* least as many errors as needed, and one too many is kept.
CutToCountOffByOne(all_errors, adjusted_count) ==
    IF Len(all_errors) > adjusted_count + 1
    THEN IF adjusted_count + 1 < 0
         THEN {Raise("ValueError")}
         ELSE {Return(s) : s \in RandomSample(all_errors, adjusted_count + 1)}
    ELSE {Return(all_errors)}

\* Lines 374-378: a sample of adjusted_count when there are more.
CutToCount(all_errors, adjusted_count) ==
    IF Len(all_errors) > adjusted_count
    THEN IF adjusted_count < 0
         THEN {Raise("ValueError")}
         ELSE {Return(s) : s \in RandomSample(all_errors, adjusted_count)}
    ELSE {Return(all_errors)}

DefaultCategories ==
    "build" :> <<"CompileTimeErrors", "RuntimeErrors", "LogicalErrors">>
    @@ "checkstyle" :> <<"NamingConventionChecks", "WhitespaceAndFormattingChecks">>

\* Lines 326-335: the selection, or the default one when it lists nothing.
EffectiveCategories(selected_categories) ==
    IF DictGet(selected_categories, "build", <<>>) = <<>>
       /\ DictGet(selected_categories, "checkstyle", <<>>) = <<>>
    THEN DefaultCategories
    ELSE selected_categories

\* Lines 324-393: the category-based branch.
CategoryMode(selected_categories, adjusted_count) ==
    LET chosen == EffectiveCategories(selected_categories)
        all == { b \o c :
                   b \in PickFromCategories(build_errors, "build", "error_name",
                                            DictGet(chosen, "build", <<>>)),
                   c \in PickFromCategories(checkstyle_errors, "checkstyle",
                                            "check_name",
                                            DictGet(chosen, "checkstyle", <<>>)) }
        cut == UNION { CutToCount(all_errors, adjusted_count) : all_errors \in all }
    IN  { IF r.raised THEN r
          ELSE Return([errors |-> r.value,
                       problem_descriptions |-> ProblemDescriptions(r.value)]) :
          r \in cut }

\* The results get_errors_for_llm can return.  The two optional arguments
\* are NoneValue or Some(v).
get_errors_for_llm(selected_categories, specific_errors, count, difficulty) ==
    LET adjusted_count == AdjustedCount(count, difficulty)
    IN  IF ~specific_errors.none /\ Len(specific_errors.value) > 0
        THEN SpecificMode(specific_errors.value, adjusted_count)
        ELSE IF ~selected_categories.none /\ DOMAIN selected_categories.value # {}
        THEN CategoryMode(selected_categories.value, adjusted_count)
        ELSE {Return([errors |-> <<>>, problem_descriptions |-> <<>>])}

-----------------------------------------------------------------------------
(* Lookups *)

ErrorsOfType(type) == IF type = "build" THEN build_errors ELSE checkstyle_errors

NameKey(type) == IF type = "build" THEN "error_name" ELSE "check_name"

get_all_categories ==
    Return("build" :> build_categories @@ "checkstyle" :> checkstyle_categories)

\* get_category_errors with the type test dropped: the category is looked up
\* in the build dictionary first, then in the checkstyle one.
get_category_errors_any_type(category_type, category_name) ==
    IF HasKey(build_errors, category_name)
    THEN Return(Lookup(build_errors, category_name))
    ELSE IF HasKey(checkstyle_errors, category_name)
    THEN Return(Lookup(checkstyle_errors, category_name))
    ELSE Return(<<>>)

get_category_errors(category_type, category_name) ==
    IF category_type = "build" /\ HasKey(build_errors, category_name)
    THEN Return(Lookup(build_errors, category_name))
    ELSE IF category_type = "checkstyle" /\ HasKey(checkstyle_errors, category_name)
    THEN Return(Lookup(checkstyle_errors, category_name))
    ELSE Return(<<>>)

\* The loop of get_errors_by_categories for one type: the stored lists of the
\* listed categories the dictionary has, one after the other.
RECURSIVE ExtendWith(_, _)
ExtendWith(errors, categories) ==
    IF categories = <<>> THEN <<>>
    ELSE (IF HasKey(errors, Head(categories))
          THEN Lookup(errors, Head(categories)) ELSE <<>>)
         \o ExtendWith(errors, Tail(categories))

\* get_errors_by_categories written as a filter over the stored dictionary:
\* the records come in the order of the repository, not of the selection.
get_errors_by_categories_in_repository_order(selected_categories) ==
    LET Filtered(errors, listed) ==
            ExtendWith(errors,
                       SelectSeq(Keys(errors), LAMBDA k : k \in Range(listed)))
    IN  Return("build" :> Filtered(build_errors,
                                   DictGet(selected_categories, "build", <<>>))
               @@ "checkstyle" :> Filtered(checkstyle_errors,
                                   DictGet(selected_categories, "checkstyle", <<>>)))

get_errors_by_categories(selected_categories) ==
    Return("build" :> (IF "build" \in DOMAIN selected_categories
                       THEN ExtendWith(build_errors, selected_categories["build"])
                       ELSE <<>>)
           @@ "checkstyle" :> (IF "checkstyle" \in DOMAIN selected_categories
                               THEN ExtendWith(checkstyle_errors,
                                               selected_categories["checkstyle"])
                               ELSE <<>>))

\* The loops matching a record on either of its name fields.
RECURSIVE FindFromEitherName(_, _, _, _)
FindFromEitherName(errors, name_key, name, c) ==
    IF c > Len(errors) THEN [c |-> 0, i |-> 0]
    ELSE LET a == FirstNamed(errors[c].value, "error_name", name)
             b == FirstNamed(errors[c].value, "check_name", name)
             i == IF a = 0 THEN b ELSE IF b = 0 THEN a ELSE Min(a, b)
         IN  IF i # 0 THEN [c |-> c, i |-> i]
             ELSE FindFromEitherName(errors, name_key, name, c + 1)

\* The nested loops of get_error_details and get_error_by_name from entry c
\* on: the place [c, i] of the first record whose name_key field is name,
\* [c |-> 0, i |-> 0] when the loops end without one.
RECURSIVE FindFrom(_, _, _, _)
FindFrom(errors, name_key, name, c) ==
    IF c > Len(errors) THEN [c |-> 0, i |-> 0]
    ELSE LET i == FirstNamed(errors[c].value, name_key, name)
         IN  IF i # 0 THEN [c |-> c, i |-> i]
             ELSE FindFrom(errors, name_key, name, c + 1)

get_error_details(error_type, error_name) ==
    IF error_type \in {"build", "checkstyle"}
    THEN LET at == FindFrom(ErrorsOfType(error_type), NameKey(error_type),
                            error_name, 1)
         IN  IF at.c = 0 THEN Return(NoneValue)
             ELSE Return(Some(ErrorsOfType(error_type)[at.c].value[at.i]))
    ELSE Return(NoneValue)

get_error_by_name(error_type, error_name) ==
    IF error_type \in {"build", "checkstyle"}
    THEN LET at == FindFrom(ErrorsOfType(error_type), NameKey(error_type),
                            error_name, 1)
             error == ErrorsOfType(error_type)[at.c].value[at.i]
         IN  IF at.c = 0 THEN Return(NoneValue)
             ELSE Return(Some([type |-> error_type,
                               category |-> ErrorsOfType(error_type)[at.c].key,
                               name |-> error[NameKey(error_type)],
                               description |-> error["description"]]))
    ELSE Return(NoneValue)

\* The matches of search_errors in one dictionary, in its order.
RECURSIVE SearchIn(_, _, _, _)
SearchIn(errors, type, term, c) ==
    IF c > Len(errors) THEN <<>>
    ELSE LET matching ==
                 SelectSeq(errors[c].value,
                           LAMBDA error :
                               \/ Contains(Lower(DictGet(error, NameKey(type), <<>>)), term)
                               \/ Contains(Lower(DictGet(error, "description", <<>>)), term))
         IN  [i \in 1..Len(matching) |->
                 [type |-> type,
                  category |-> errors[c].key,
                  name |-> matching[i][NameKey(type)],
                  description |-> matching[i]["description"]]]
             \o SearchIn(errors, type, term, c + 1)

\* search_errors without search_term = search_term.lower(): the lower-cased
\* names and descriptions are searched for the term as typed.
search_errors_term_as_typed(search_term) ==
    Return(SearchIn(build_errors, "build", search_term, 1)
           \o SearchIn(checkstyle_errors, "checkstyle", search_term, 1))

search_errors(search_term) ==
    Return(SearchIn(build_errors, "build", Lower(search_term), 1)
           \o SearchIn(checkstyle_errors, "checkstyle", Lower(search_term), 1))

-----------------------------------------------------------------------------
(* Arguments *)

Counts == -1..MaxCount

Difficulties ==
    { Easy, <<"E","A","S","Y">>, Medium, <<"H","a","r","d">>, <<"p","r","o">> }

EmptyDict == [k \in {} |-> <<>>]

SelectedCategoriesArgs ==
    { EmptyDict,
      "build" :> <<>> @@ "checkstyle" :> <<>>,
      "other" :> <<"RuntimeErrors">>,
      "build" :> <<"CompileTimeErrors">>,
      "build" :> <<"CompileTimeErrors", "RuntimeErrors">>
          @@ "checkstyle" :> <<"NamingConventionChecks">>,
      "checkstyle" :> <<"Javadoc", "Nope">>,
      "build" :> <<"RuntimeErrors", "RuntimeErrors">> @@ "checkstyle" :> <<>>,
      "build" :> <<"NamingConventionChecks">>
          @@ "checkstyle" :> <<"CompileTimeErrors">>,
      "build" :> <<"Misc", "LogicalErrors">>
          @@ "checkstyle" :> <<"WhitespaceAndFormattingChecks">> }

\* Errors as the selection page builds them (type, category, name,
\* description), one with a guide of its own and one with nothing but a name.
SpecificNpe ==
    [type |-> "build", category |-> "RuntimeErrors", name |-> <<"N","p","e">>,
     description |-> <<"n","u","l","l">>]

SpecificCon ==
    [type |-> "checkstyle", category |-> "Javadoc", name |-> <<"C","o","n">>,
     description |-> <<"d","o","c">>]

SpecificTyp ==
    [type |-> "build", category |-> "CompileTimeErrors", name |-> <<"T","y","p">>,
     description |-> <<"r","e","t">>, implementation_guide |-> "mine"]

SpecificBare == [name |-> <<"Z","z","z">>]

SpecificErrorsArgs ==
    { NoneValue,
      Some(<<>>),
      Some(<<SpecificTyp, SpecificNpe, SpecificCon>>),
      Some(<<SpecificCon, SpecificBare>>) }

OptionalCategoriesArgs == {NoneValue} \cup { Some(d) : d \in SelectedCategoriesArgs }

TypeArgs == {"build", "checkstyle", "Build"}

CategoryArgs ==
    {"RuntimeErrors", "CompileTimeErrors", "LogicalErrors", "Misc",
     "NamingConventionChecks", "WhitespaceAndFormattingChecks", "Javadoc", "Nope"}

NameArgs ==
    { <<"N","p","e">>, <<"D","i","v">>, <<"E","q">>, <<"C","o","n">>,
      <<"F","i","n">>, <<"Z","z","z">> }

SearchArgs ==
    { <<>>, <<"n">>, <<"N","P">>, <<"r","e","t">>, <<"o">>, <<"z","z">> }

-----------------------------------------------------------------------------
(* The query operations on a constructed repository *)

Untouched == UNCHANGED <<fs, build_errors, checkstyle_errors,
                         build_categories, checkstyle_categories, io_log,
                         session>>

GetAllCategories ==
    /\ pc = "ready"
    /\ pc' = "returned"
    /\ call' = [op |-> "get_all_categories"]
    /\ ret' = get_all_categories
    /\ Untouched

GetCategoryErrors ==
    /\ pc = "ready"
    /\ pc' = "returned"
    /\ \E category_type \in TypeArgs, category_name \in CategoryArgs :
          /\ call' = [op |-> "get_category_errors", category_type |-> category_type,
                      category_name |-> category_name]
          /\ ret' = get_category_errors(category_type, category_name)
    /\ Untouched

GetErrorsByCategories ==
    /\ pc = "ready"
    /\ pc' = "returned"
    /\ \E selected_categories \in SelectedCategoriesArgs :
          /\ call' = [op |-> "get_errors_by_categories",
                      selected_categories |-> selected_categories]
          /\ ret' = get_errors_by_categories(selected_categories)
    /\ Untouched

GetErrorDetails ==
    /\ pc = "ready"
    /\ pc' = "returned"
    /\ \E error_type \in TypeArgs, error_name \in NameArgs :
          /\ call' = [op |-> "get_error_details", error_type |-> error_type,
                      error_name |-> error_name]
          /\ ret' = get_error_details(error_type, error_name)
    /\ Untouched

GetErrorByName ==
    /\ pc = "ready"
    /\ pc' = "returned"
    /\ \E error_type \in TypeArgs, error_name \in NameArgs :
          /\ call' = [op |-> "get_error_by_name", error_type |-> error_type,
                      error_name |-> error_name]
          /\ ret' = get_error_by_name(error_type, error_name)
    /\ Untouched

SearchErrors ==
    /\ pc = "ready"
    /\ pc' = "returned"
    /\ \E search_term \in SearchArgs :
          /\ call' = [op |-> "search_errors", search_term |-> search_term]
          /\ ret' = search_errors(search_term)
    /\ Untouched

GetRandomErrorsByCategories ==
    /\ pc = "ready"
    /\ pc' = "returned"
    /\ \E selected_categories \in SelectedCategoriesArgs, count \in Counts :
          /\ call' = [op |-> "get_random_errors_by_categories",
                      selected_categories |-> selected_categories,
                      count |-> count]
          /\ ret' \in get_random_errors_by_categories(selected_categories, count)
    /\ Untouched

\* The category loop written with random.shuffle(category_errors) and a
\* slice: the stored list of every selected build category is reordered.
GetErrorsForLlmShuffling ==
    /\ pc = "ready"
    /\ pc' = "returned"
    /\ \E selected_categories \in OptionalCategoriesArgs,
          specific_errors \in SpecificErrorsArgs,
          count \in Counts, difficulty \in Difficulties :
          /\ call' = [op |-> "get_errors_for_llm",
                      selected_categories |-> selected_categories,
                      specific_errors |-> specific_errors,
                      count |-> count, difficulty |-> difficulty]
          /\ ret' \in get_errors_for_llm(selected_categories, specific_errors,
                                         count, difficulty)
          /\ build_errors' =
                [c \in 1..Len(build_errors) |->
                    IF /\ specific_errors.none
                       /\ ~selected_categories.none
                       /\ build_errors[c].key \in
                              Range(DictGet(selected_categories.value, "build", <<>>))
                    THEN [key |-> build_errors[c].key,
                          value |-> [i \in 1..Len(build_errors[c].value) |->
                                        build_errors[c].value[
                                            Len(build_errors[c].value) + 1 - i]]]
                    ELSE build_errors[c]]
    /\ UNCHANGED <<fs, checkstyle_errors, build_categories,
                   checkstyle_categories, io_log, session>>

GetErrorsForLlm ==
    /\ pc = "ready"
    /\ pc' = "returned"
    /\ \E selected_categories \in OptionalCategoriesArgs,
          specific_errors \in SpecificErrorsArgs,
          count \in Counts, difficulty \in Difficulties :
          /\ call' = [op |-> "get_errors_for_llm",
                      selected_categories |-> selected_categories,
                      specific_errors |-> specific_errors,
                      count |-> count, difficulty |-> difficulty]
          /\ ret' \in get_errors_for_llm(selected_categories, specific_errors,
                                         count, difficulty)
    /\ Untouched

-----------------------------------------------------------------------------
(* ErrorSelectorUI: the session state and the standard mode                *)

\* The value of one key of st.session_state before the page is built:
\* absent, something that is not a dict, or a dict.
Absent == [present |-> FALSE]

NotADict == [present |-> TRUE, is_dict |-> FALSE]

Holding(v) == [present |-> TRUE, is_dict |-> TRUE, value |-> v]

\* ErrorSelectorUI.__init__ on selected_error_categories: an absent value or
\* one that is no dict becomes the empty selection, a dict gets the keys it
\* lacks.
InitSelectedErrorCategories(stored) ==
    IF ~stored.present THEN "build" :> <<>> @@ "checkstyle" :> <<>>
    ELSE IF ~stored.is_dict THEN "build" :> <<>> @@ "checkstyle" :> <<>>
    ELSE [k \in DOMAIN stored.value \cup {"build", "checkstyle"} |->
             IF k \in DOMAIN stored.value THEN stored.value[k] ELSE <<>>]

\* ErrorSelectorUI.__init__ on problem_areas.
InitProblemAreas(stored) == IF stored.present THEN stored.value ELSE <<>>

\* problem_areas_config, in the order it is written: every area with its
\* mapping (the icon and the description only reach the page).
problem_areas_config ==
    << [key |-> "Style",
        value |-> [mapping |->
            "build" :> <<>>
            @@ "checkstyle" :> <<"NamingConventionChecks",
                                 "WhitespaceAndFormattingChecks", "JavadocChecks">>]],
       [key |-> "Logical",
        value |-> [mapping |->
            "build" :> <<"LogicalErrors">> @@ "checkstyle" :> <<>>]],
       [key |-> "Performance",
        value |-> [mapping |->
            "build" :> <<"RuntimeErrors">> @@ "checkstyle" :> <<"MetricsChecks">>]],
       [key |-> "Security",
        value |-> [mapping |->
            "build" :> <<"RuntimeErrors", "LogicalErrors">>
            @@ "checkstyle" :> <<"CodeQualityChecks">>]],
       [key |-> "Design",
        value |-> [mapping |->
            "build" :> <<"LogicalErrors">>
            @@ "checkstyle" :> <<"MiscellaneousChecks", "FileStructureChecks",
                                 "BlockChecks">>]] >>

\* Lines 545-565: the areas whose checkbox is checked, in the order of the
\* configuration.
CheckedAreas(checked) ==
    SelectSeq(Keys(problem_areas_config), LAMBDA area : area \in checked)

\* The loops of lines 636-641 with the membership test left out.
RECURSIVE AppendAll(_, _)
AppendAll(list, categories) ==
    IF categories = <<>> THEN list
    ELSE AppendAll(Append(list, Head(categories)), Tail(categories))

\* Lines 636-638 and 639-641: every category of the mapping is appended
\* unless the list has it.
RECURSIVE AppendNew(_, _)
AppendNew(list, categories) ==
    IF categories = <<>> THEN list
    ELSE AppendNew(IF Head(categories) \in Range(list) THEN list
                   ELSE Append(list, Head(categories)),
                   Tail(categories))

\* Lines 627-641: the selection built from the areas, starting from the
\* two empty lists.
RECURSIVE MapAreas(_, _)
MapAreas(areas, selected_categories) ==
    IF areas = <<>> THEN selected_categories
    ELSE LET area == Head(areas)
         IN  IF HasKey(problem_areas_config, area)
             THEN LET mapping == Lookup(problem_areas_config, area).mapping
                  IN  MapAreas(Tail(areas),
                               "build" :> AppendNew(selected_categories["build"],
                                                    mapping["build"])
                               @@ "checkstyle" :>
                                      AppendNew(selected_categories["checkstyle"],
                                                mapping["checkstyle"]))
             ELSE MapAreas(Tail(areas), selected_categories)

\* render_simple_mode with the set of checked checkboxes: the two session
\* values it stores and the list it returns.
render_simple_mode(checked) ==
    LET areas == CheckedAreas(checked)
        selected_categories ==
            MapAreas(areas, "build" :> <<>> @@ "checkstyle" :> <<>>)
    IN  [problem_areas |-> areas,
         selected_error_categories |-> selected_categories,
         value |-> areas]

AreaArgs == SUBSET Range(Keys(problem_areas_config))

\* The page is run in standard mode.  The repositories the debug output of
\* lines 650-686 constructs are its own; the one modelled here is not used.
RenderSimpleMode ==
    /\ pc = "ready"
    /\ pc' = "returned"
    /\ \E checked \in AreaArgs :
          LET r == render_simple_mode(checked)
          IN  /\ call' = [op |-> "render_simple_mode", checked |-> checked]
              /\ problem_areas' = r.problem_areas
              /\ selected_error_categories' = r.selected_error_categories
              /\ ret' = Return(r.value)
    /\ UNCHANGED <<fs, build_errors, checkstyle_errors, build_categories,
                   checkstyle_categories, io_log>>

\* get_errors_for_llm on the selection the session holds, without specific
\* errors.
GetErrorsForLlmFromSession ==
    /\ pc = "ready"
    /\ pc' = "returned"
    /\ \E count \in Counts, difficulty \in Difficulties :
          /\ call' = [op |-> "get_errors_for_llm",
                      selected_categories |-> Some(selected_error_categories),
                      specific_errors |-> NoneValue,
                      count |-> count, difficulty |-> difficulty]
          /\ ret' \in get_errors_for_llm(Some(selected_error_categories), NoneValue,
                                         count, difficulty)
    /\ Untouched

-----------------------------------------------------------------------------
(* Specifications *)

InitVars ==
    /\ pc = "new"
    /\ build_errors = <<>>
    /\ checkstyle_errors = <<>>
    /\ build_categories = <<>>
    /\ checkstyle_categories = <<>>
    /\ io_log = <<>>
    /\ call = [op |-> "none"]
    /\ ret = [raised |-> FALSE, value |-> NoneValue]

\* The session of a page built for the first time.
InitSession ==
    /\ problem_areas = InitProblemAreas(Absent)
    /\ selected_error_categories = InitSelectedErrorCategories(Absent)

\* What earlier runs of the page, in any mode, may have left in the session.
StoredSelections ==
    { Absent, NotADict,
      Holding("build" :> <<"CompileTimeErrors">>),
      Holding("build" :> <<"RuntimeErrors">>
              @@ "checkstyle" :> <<"NamingConventionChecks", "Javadoc">>) }

StoredProblemAreas == { Absent, Holding(<<"Style", "Security">>) }

\* The loader under every file system with at most MaxFiles files among the
\* candidate locations.
InitLoad ==
    /\ \E present \in SUBSET AllPaths :
          /\ Cardinality(present) <= MaxFiles
          /\ fs \in FileSystems(present, {"corrupt", "A", "B"})
    /\ InitVars
    /\ InitSession

NextLoad == Construct \/ LoadErrorData \/ Continue

SpecLoad == InitLoad /\ [][NextLoad]_vars

\* The queries on a repository whose files, when present, are at the paths
\* given to the constructor.
Init ==
    /\ \E present \in SUBSET {<<build_errors_path>>, <<checkstyle_errors_path>>} :
          fs \in FileSystems(present, {"A", "B"})
    /\ InitVars
    /\ InitSession

Next ==
    \/ Construct
    \/ LoadErrorData
    \/ Continue
    \/ GetErrorsForLlm
    \/ GetAllCategories
    \/ GetCategoryErrors
    \/ GetErrorsByCategories
    \/ GetErrorDetails
    \/ GetErrorByName
    \/ SearchErrors
    \/ GetRandomErrorsByCategories

Spec == Init /\ [][Next]_vars

\* The standard mode of the selection page over a constructed repository:
\* the page is run, with any boxes checked, and the selection it leaves in
\* the session is passed to get_errors_for_llm.
InitUI ==
    /\ \E present \in SUBSET {<<build_errors_path>>, <<checkstyle_errors_path>>} :
          fs \in FileSystems(present, {"A", "B"})
    /\ InitVars
    /\ \E areas \in StoredProblemAreas, selection \in StoredSelections :
          /\ problem_areas = InitProblemAreas(areas)
          /\ selected_error_categories = InitSelectedErrorCategories(selection)

NextUI ==
    \/ Construct
    \/ Continue
    \/ GetErrorsForLlmFromSession
    \/ RenderSimpleMode

SpecUI == InitUI /\ [][NextUI]_vars

-----------------------------------------------------------------------------
(* Properties of loading, stated over the file system and the log *)

Loading == call.op \in {"__init__", "load_error_data"}

\* The candidate locations of a file, as the documentation lists them.
CandidateLocations(file_name) == <<
    <<file_name>>,
    <<"current_dir", file_name>>,
    <<"parent_dir", file_name>>,
    <<"parent_dir", "data", file_name>>,
    <<"parent_dir", "resources", file_name>>,
    <<"parent_dir", "assets", file_name>> >>

\* The position of the first candidate that exists, 0 when there is none.
FirstExisting(file_name) ==
    LET c == CandidateLocations(file_name)
        found == { i \in 1..Len(c) : fs[c[i]].exists }
    IN  IF found = {} THEN 0 ELSE CHOOSE i \in found : \A j \in found : i <= j

\* The first existing candidate of the file holds a JSON object.
FoundAndParsed(file_name) ==
    /\ FirstExisting(file_name) # 0
    /\ fs[CandidateLocations(file_name)[FirstExisting(file_name)]].valid

\* The calls of the log that concern the candidates of a file, in order.
LogOf(file_name, op) ==
    SelectSeq(io_log, LAMBDA e : e.op = op /\ e.path \in Range(CandidateLocations(file_name)))

Paths(events) == [i \in 1..Len(events) |-> events[i].path]

\* The names of a JSON object's members in the order of their first occurrence.
RECURSIVE FirstOccurrences(_, _)
FirstOccurrences(members, seen) ==
    IF members = <<>> THEN seen
    ELSE FirstOccurrences(Tail(members),
                          IF Head(members).key \in Range(seen) THEN seen
                          ELSE Append(seen, Head(members).key))

\* C7: load_error_data returns True exactly when both files were found and
\* parsed; the checkstyle load is attempted even when the build load fails;
\* neither the constructor nor load_error_data raises, whatever the files.
C7_LoadResult ==
    Loading =>
        /\ ~ret.raised
        /\ call.op = "load_error_data" =>
              (ret.value = TRUE <=> (FoundAndParsed(build_errors_path)
                                     /\ FoundAndParsed(checkstyle_errors_path)))
        /\ LogOf(checkstyle_errors_path, "exists") # <<>>
        /\ ret.checkstyle_loaded = FoundAndParsed(checkstyle_errors_path)

\* The build load failed on an unparsable file and the checkstyle file was
\* loaded all the same.
C7_Witness ==
    /\ call.op = "load_error_data"
    /\ ret.value = FALSE
    /\ FirstExisting(build_errors_path) # 0
    /\ ~FoundAndParsed(build_errors_path)
    /\ ret.checkstyle_loaded
    /\ checkstyle_categories # <<>>

\* What a loader did with the candidates of one file: it probed them in the
\* documented order up to the first that exists, opened that one and no
\* other, and on success stored the object it holds.
LoaderFollowsCandidates(file_name, loaded, errors, categories) ==
    LET c == CandidateLocations(file_name)
        first == FirstExisting(file_name)
        probes == Paths(LogOf(file_name, "exists"))
        opens == Paths(LogOf(file_name, "open"))
    IN  /\ probes = SubSeq(c, 1, IF first = 0 THEN Len(c) ELSE first)
        /\ opens = (IF first = 0 THEN <<>> ELSE <<c[first]>>)
        /\ loaded =>
              /\ errors = JsonLoad(fs[c[first]])
              /\ categories = FirstOccurrences(fs[c[first]].members, <<>>)

\* C8 (as amended): each loader tries the candidates in the fixed order, loads
\* from the first that exists and reads no later one; it returns True exactly
\* when that first existing candidate holds a valid file; on success the
\* category list is the keys of the loaded dictionary in file order.
C8_FirstExistingDecides ==
    Loading =>
        /\ LoaderFollowsCandidates(build_errors_path, ret.build_loaded,
                                   build_errors, build_categories)
        /\ LoaderFollowsCandidates(checkstyle_errors_path, ret.checkstyle_loaded,
                                   checkstyle_errors, checkstyle_categories)
        /\ ret.build_loaded = FoundAndParsed(build_errors_path)
        /\ ret.checkstyle_loaded = FoundAndParsed(checkstyle_errors_path)

\* C8 as first stated: a loader returns True if at least one candidate
\* location holds a valid file.
C8_AnyValidCandidateLoads ==
    Loading =>
        /\ (\E p \in BuildPaths : fs[p].valid) => ret.build_loaded
        /\ (\E p \in CheckstylePaths : fs[p].valid) => ret.checkstyle_loaded

\* The build file was loaded from a fallback location, the earlier candidates
\* being absent, from a file that names a category twice.
C8_Witness ==
    /\ call.op = "__init__"
    /\ ret.build_loaded
    /\ FirstExisting(build_errors_path) > 1
    /\ build_categories = <<"Misc", "LogicalErrors">>
    /\ \E p \in BuildPaths :
          p # CandidateLocations(build_errors_path)[FirstExisting(build_errors_path)]
          /\ fs[p].exists

-----------------------------------------------------------------------------
(* Properties of the query operations, stated over the arguments of the    *)
(* last call, its result and the stored dictionaries                       *)

QueryOps ==
    {"get_all_categories", "get_category_errors", "get_errors_by_categories",
     "get_error_details", "get_random_errors_by_categories", "get_errors_for_llm",
     "search_errors", "get_error_by_name"}

Called(op) == pc = "returned" /\ call.op = op

\* The stored list of a category of a type, empty when there is none.
Stored(type, category) ==
    IF type = "build"
    THEN (IF HasKey(build_errors, category) THEN Lookup(build_errors, category)
          ELSE <<>>)
    ELSE IF type = "checkstyle"
    THEN (IF HasKey(checkstyle_errors, category)
          THEN Lookup(checkstyle_errors, category) ELSE <<>>)
    ELSE <<>>

\* The field that names a record of a type.
NameField(type) == IF type = "build" THEN "error_name" ELSE "check_name"

\* The number of records the categories of a list hold for a type, a category
\* listed twice counting twice.
RECURSIVE RecordsHeld(_, _)
RecordsHeld(type, categories) ==
    IF categories = <<>> THEN 0
    ELSE Len(Stored(type, Head(categories))) + RecordsHeld(type, Tail(categories))

\* The number of records a selection collects from both types.
Collected(selected_categories) ==
    RecordsHeld("build", DictGet(selected_categories, "build", <<>>))
    + RecordsHeld("checkstyle", DictGet(selected_categories, "checkstyle", <<>>))

\* How often the collection of a selection holds the entry e: once for every
\* listing of its category and every stored record it is the entry of.
TimesCollected(selected_categories, e) ==
    IF e.type \in {"build", "checkstyle"}
    THEN LET listed == DictGet(selected_categories, e.type, <<>>)
             records == Stored(e.type, e.category)
         IN  Cardinality({ i \in 1..Len(listed) : listed[i] = e.category })
             * Cardinality({ i \in 1..Len(records) :
                   /\ records[i][NameField(e.type)] = e.name
                   /\ records[i]["description"] = e.description
                   /\ DictGet(records[i], "implementation_guide", "")
                          = e.implementation_guide })
    ELSE 0

TimesIn(list, e) == Cardinality({ i \in 1..Len(list) : list[i] = e })

\* C1: no query operation changes build_errors, checkstyle_errors,
\* build_categories or checkstyle_categories, and no operation at all writes
\* to the files.
C1_QueriesLeaveRepository ==
    [][/\ fs' = fs
       /\ call'.op \in QueryOps =>
             /\ build_errors' = build_errors
             /\ checkstyle_errors' = checkstyle_errors
             /\ build_categories' = build_categories
             /\ checkstyle_categories' = checkstyle_categories]_vars

\* A category-based get_errors_for_llm has returned errors drawn from a
\* repository holding both dictionaries.
C1_Witness ==
    /\ Called("get_errors_for_llm")
    /\ call.specific_errors.none
    /\ ~ret.raised
    /\ Len(ret.value.errors) >= 2
    /\ build_errors # <<>>
    /\ checkstyle_errors # <<>>

\* C2: for count >= 0, get_random_errors_by_categories returns exactly
\* min(count, N) errors, N being the number of records collected from the
\* selected categories the repository has; every returned entry is a
\* collected record with its type and category, and none is returned more
\* often than it was collected.
C2_RandomErrorsCount ==
    (Called("get_random_errors_by_categories") /\ call.count >= 0) =>
        /\ ~ret.raised
        /\ Len(ret.value) = Min(call.count, Collected(call.selected_categories))
        /\ \A i \in 1..Len(ret.value) :
              /\ TimesCollected(call.selected_categories, ret.value[i]) >= 1
              /\ TimesIn(ret.value, ret.value[i])
                    <= TimesCollected(call.selected_categories, ret.value[i])

\* Two of more than two collected records were returned, one of each type.
C2_Witness ==
    /\ Called("get_random_errors_by_categories")
    /\ call.count = 2
    /\ Collected(call.selected_categories) > 2
    /\ Len(ret.value) = 2
    /\ ret.value[1].type = "checkstyle"
    /\ ret.value[2].type = "build"

SpecificGiven == ~call.specific_errors.none /\ Len(call.specific_errors.value) > 0

\* C3: with a non-empty specific_errors, get_errors_for_llm returns exactly
\* those errors in the given order (each keeps its type, category, name and
\* description and gains at most an implementation guide), whatever
\* selected_categories, count and difficulty are.
C3_SpecificErrorsReturned ==
    (Called("get_errors_for_llm") /\ SpecificGiven) =>
        /\ ~ret.raised
        /\ Len(ret.value.errors) = Len(call.specific_errors.value)
        /\ \A i \in 1..Len(ret.value.errors) :
              LET given == call.specific_errors.value[i]
                  returned == ret.value.errors[i]
              IN  /\ DOMAIN given \subseteq DOMAIN returned
                  /\ DOMAIN returned \subseteq DOMAIN given \cup {"implementation_guide"}
                  /\ \A k \in DOMAIN given \ {"implementation_guide"} :
                        returned[k] = given[k]

\* Three specific errors came back although the adjusted count is 2 and a
\* category selection was passed as well.
C3_Witness ==
    /\ Called("get_errors_for_llm")
    /\ SpecificGiven
    /\ Len(call.specific_errors.value) = 3
    /\ call.count = 2
    /\ call.difficulty = <<"E","A","S","Y">>
    /\ ~call.selected_categories.none
    /\ "build" \in DOMAIN call.selected_categories.value
    /\ Len(ret.value.errors) = 3

\* The adjusted count as the documentation gives it, the difficulty in any
\* spelling of its letters.
DocumentedCount(count, difficulty) ==
    IF difficulty \in {<<"e","a","s","y">>, <<"E","A","S","Y">>}
    THEN (IF count - 2 > 2 THEN count - 2 ELSE 2)
    ELSE IF difficulty \in {<<"h","a","r","d">>, <<"H","a","r","d">>}
    THEN count + 2
    ELSE count

\* The category-based branch ran: no specific errors and a non-empty
\* selected_categories dictionary.
CategoryBased ==
    /\ Called("get_errors_for_llm")
    /\ ~SpecificGiven
    /\ ~call.selected_categories.none
    /\ DOMAIN call.selected_categories.value # {}

\* C4: in category-based mode get_errors_for_llm never returns more errors
\* than the adjusted count: max(2, count - 2) for easy, count for medium,
\* count + 2 for hard, in any letter case, and count for any other difficulty.
C4_AtMostAdjustedCount ==
    (CategoryBased /\ ~ret.raised) =>
        Len(ret.value.errors) <= DocumentedCount(call.count, call.difficulty)

\* The selection drew more than the adjusted count and the result was cut
\* to it.
C4_Witness ==
    /\ CategoryBased
    /\ ~ret.raised
    /\ call.difficulty = <<"H","a","r","d">>
    /\ call.count = 1
    /\ Collected(call.selected_categories.value) > 3
    /\ Len(ret.value.errors) = 3

\* C5: in category-based mode, whenever the selected categories the
\* repository has hold at least the adjusted count of records, the returned
\* list has exactly the adjusted count of entries.
C5_ExactlyAdjustedCount ==
    (/\ CategoryBased
     /\ Collected(call.selected_categories.value) > 0
     /\ DocumentedCount(call.count, call.difficulty) >= 0
     /\ Collected(call.selected_categories.value)
           >= DocumentedCount(call.count, call.difficulty)) =>
        /\ ~ret.raised
        /\ Len(ret.value.errors) = DocumentedCount(call.count, call.difficulty)

\* The default categories of the documentation.
InDefaultCategory(e) ==
    \/ e.type = "build"
       /\ e.category \in {"CompileTimeErrors", "RuntimeErrors", "LogicalErrors"}
    \/ e.type = "checkstyle"
       /\ e.category \in {"NamingConventionChecks", "WhitespaceAndFormattingChecks"}

DefaultsHold ==
    \/ \E c \in {"CompileTimeErrors", "RuntimeErrors", "LogicalErrors"} :
          Stored("build", c) # <<>>
    \/ \E c \in {"NamingConventionChecks", "WhitespaceAndFormattingChecks"} :
          Stored("checkstyle", c) # <<>>

\* C6: without specific errors, a selected_categories dictionary that names
\* no build and no checkstyle category (both lists empty or both keys
\* absent) makes get_errors_for_llm select from the default categories
\* instead of returning nothing.
C6_EmptySelectionUsesDefaults ==
    (/\ Called("get_errors_for_llm")
     /\ ~SpecificGiven
     /\ ~call.selected_categories.none
     /\ DictGet(call.selected_categories.value, "build", <<>>) = <<>>
     /\ DictGet(call.selected_categories.value, "checkstyle", <<>>) = <<>>
     /\ ~ret.raised) =>
        /\ \A i \in 1..Len(ret.value.errors) : InDefaultCategory(ret.value.errors[i])
        /\ (DefaultsHold /\ DocumentedCount(call.count, call.difficulty) > 0) =>
              ret.value.errors # <<>>

\* The places <<c, i>> of the records of a type that carry a name, c the
\* position of the category and i that of the record in it.
PlacesNamed(type, name) ==
    IF type \in {"build", "checkstyle"}
    THEN LET d == IF type = "build" THEN build_errors ELSE checkstyle_errors
         IN  UNION { { <<c, i>> : i \in { j \in 1..Len(d[c].value) :
                                  /\ NameField(type) \in DOMAIN d[c].value[j]
                                  /\ d[c].value[j][NameField(type)] = name } } :
                     c \in 1..Len(d) }
    ELSE {}

FirstPlace(places) ==
    CHOOSE p \in places :
        \A q \in places : p[1] < q[1] \/ (p[1] = q[1] /\ p[2] <= q[2])

\* C9: get_error_details and get_error_by_name return None when no record of
\* the requested type carries the name (any type other than build and
\* checkstyle included); otherwise both identify the first such record in
\* category order, then record order, build records being matched on
\* error_name alone and checkstyle records on check_name alone.
C9_FirstMatchWins ==
    (Called("get_error_details") \/ Called("get_error_by_name")) =>
        LET places == PlacesNamed(call.error_type, call.error_name)
            d == IF call.error_type = "build" THEN build_errors
                 ELSE checkstyle_errors
        IN  /\ ~ret.raised
            /\ places = {} => ret.value = NoneValue
            /\ places # {} =>
                  LET p == FirstPlace(places)
                      record == d[p[1]].value[p[2]]
                  IN  IF call.op = "get_error_details"
                      THEN ret.value = Some(record)
                      ELSE ret.value =
                             Some([type |-> call.error_type,
                                   category |-> d[p[1]].key,
                                   name |-> call.error_name,
                                   description |-> record["description"]])

\* A name carried by a record of each of two build categories was looked up
\* and the record of the first category came back.
C9_Witness ==
    /\ Called("get_error_by_name")
    /\ call.error_type = "build"
    /\ Cardinality({ p[1] : p \in PlacesNamed("build", call.error_name) }) = 2
    /\ ~ret.value.none
    /\ ret.value.value.category = build_errors[1].key

\* C10: get_category_errors returns the stored list of the category when the
\* type is build or checkstyle and the dictionary of that type has the
\* category, and an empty list in every other case; it never raises.
C10_CategoryErrors ==
    Called("get_category_errors") =>
        /\ ~ret.raised
        /\ ret.value =
              (IF call.category_type = "build"
                  /\ \E c \in 1..Len(build_errors) :
                        build_errors[c].key = call.category_name
               THEN build_errors[CHOOSE c \in 1..Len(build_errors) :
                                    build_errors[c].key = call.category_name].value
               ELSE IF call.category_type = "checkstyle"
                       /\ \E c \in 1..Len(checkstyle_errors) :
                             checkstyle_errors[c].key = call.category_name
               THEN checkstyle_errors[CHOOSE c \in 1..Len(checkstyle_errors) :
                                    checkstyle_errors[c].key = call.category_name].value
               ELSE <<>>)

\* A category that only the checkstyle dictionary has was asked for as a
\* build category and nothing came back.
C10_Witness ==
    /\ Called("get_category_errors")
    /\ call.category_type = "build"
    /\ ~HasKey(build_errors, call.category_name)
    /\ HasKey(checkstyle_errors, call.category_name)
    /\ Lookup(checkstyle_errors, call.category_name) # <<>>
    /\ build_errors # <<>>
    /\ ret.value = <<>>

-----------------------------------------------------------------------------
(* Properties of get_errors_by_categories and search_errors                *)

\* The place in the result of get_errors_by_categories where the records of
\* the k-th listed category begin: after those of the k - 1 listed before.
OffsetOf(type, listed, k) == RecordsHeld(type, SubSeq(listed, 1, k - 1))

\* C11: get_errors_by_categories always returns a dictionary with exactly the
\* keys build and checkstyle; each value is the concatenation, in the order
\* the categories were listed, of the record lists of the listed categories
\* that exist for that type; unknown categories and a missing build or
\* checkstyle key contribute nothing.
C11_ErrorsByCategories ==
    Called("get_errors_by_categories") =>
        /\ ~ret.raised
        /\ DOMAIN ret.value = {"build", "checkstyle"}
        /\ \A type \in {"build", "checkstyle"} :
              LET listed == IF type \in DOMAIN call.selected_categories
                            THEN call.selected_categories[type] ELSE <<>>
              IN  /\ Len(ret.value[type]) = RecordsHeld(type, listed)
                  /\ \A k \in 1..Len(listed) :
                        \A j \in 1..Len(Stored(type, listed[k])) :
                            ret.value[type][OffsetOf(type, listed, k) + j]
                                = Stored(type, listed[k])[j]

\* Two build categories were listed against the order in which the
\* repository stores them, and the records of both came back.
C11_Witness ==
    /\ Called("get_errors_by_categories")
    /\ "build" \in DOMAIN call.selected_categories
    /\ Len(call.selected_categories["build"]) = 2
    /\ Len(build_errors) >= 2
    /\ call.selected_categories["build"][1] = build_errors[2].key
    /\ call.selected_categories["build"][2] = build_errors[1].key
    /\ build_errors[1].value # <<>>
    /\ build_errors[2].value # <<>>
    /\ build_errors[1].value[1] # build_errors[2].value[1]
    /\ ret.value["build"][1] = build_errors[2].value[1]

\* The dictionary of the t-th type, build being the first.
TypeOf(t) == IF t = 1 THEN "build" ELSE "checkstyle"

DictOf(t) == IF t = 1 THEN build_errors ELSE checkstyle_errors

\* term occurs in text when the case of the letters is ignored.
OccursIgnoringCase(term, text) ==
    \E k \in 0..(Len(text) - Len(term)) :
        \A i \in 1..Len(term) : LowerChar(text[k + i]) = LowerChar(term[i])

\* The places <<t, c, i>> of all records: type, category and record position.
Places ==
    UNION { UNION { { <<t, c, i>> : i \in 1..Len(DictOf(t)[c].value) } :
                    c \in 1..Len(DictOf(t)) } :
            t \in 1..2 }

RecordAt(p) == DictOf(p[1])[p[2]].value[p[3]]

\* The places of the records whose name or description holds the term.
PlacesMatching(term) ==
    { p \in Places :
        \/ OccursIgnoringCase(term, RecordAt(p)[NameField(TypeOf(p[1]))])
        \/ OccursIgnoringCase(term, RecordAt(p)["description"]) }

\* Build before checkstyle, then category order, then record order.
Before(p, q) ==
    \/ p[1] < q[1]
    \/ p[1] = q[1] /\ p[2] < q[2]
    \/ p[1] = q[1] /\ p[2] = q[2] /\ p[3] < q[3]

\* C12: search_errors(term) returns exactly the records whose name
\* (error_name for build, check_name for checkstyle) or description contains
\* the term case-insensitively, each tagged with its type and category, with
\* all build matches before all checkstyle matches and in repository order
\* within each type; the empty term returns every record.
C12_SearchErrors ==
    Called("search_errors") =>
        LET found == PlacesMatching(call.search_term)
        IN  /\ ~ret.raised
            /\ Len(ret.value) = Cardinality(found)
            /\ \A p \in found :
                  LET n == Cardinality({ q \in found : Before(q, p) }) + 1
                  IN  ret.value[n] =
                          [type |-> TypeOf(p[1]),
                           category |-> DictOf(p[1])[p[2]].key,
                           name |-> RecordAt(p)[NameField(TypeOf(p[1]))],
                           description |-> RecordAt(p)["description"]]
            /\ call.search_term = <<>> => Len(ret.value) = Cardinality(Places)

\* A term typed in capitals was found in lower-case text of both types, and
\* some record of the repository did not match.
C12_Witness ==
    /\ Called("search_errors")
    /\ call.search_term # Lower(call.search_term)
    /\ Len(ret.value) >= 2
    /\ Len(ret.value) < Cardinality(Places)
    /\ ret.value[1].type = "build"
    /\ ret.value[Len(ret.value)].type = "checkstyle"
    /\ \E n \in 1..Len(ret.value) :
          /\ ~Contains(ret.value[n].name, call.search_term)
          /\ ~Contains(ret.value[n].description, call.search_term)

-----------------------------------------------------------------------------
(* Properties of the problem descriptions of get_errors_for_llm            *)

\* The description the documentation gives for an error that has a name, a
\* description and a category, as the sequence of its pieces.
Described(e) ==
    <<IF "type" \in DOMAIN e /\ e["type"] = "build"
      THEN "Build Error - " ELSE "Checkstyle Error - ">>
    \o e["name"] \o <<": ">> \o e["description"]
    \o <<" (Category: ", e["category"], ")">>

\* C13: get_errors_for_llm returns two lists of equal length in which the
\* i-th problem description is built from the i-th returned error:
\* 'Build Error - <name>: <description> (Category: <category>)' when the
\* error's type is 'build' and 'Checkstyle Error - <name>: <description>
\* (Category: <category>)' otherwise; with neither specific errors nor
\* selected categories given it returns two empty lists.
C13_ProblemDescriptions ==
    Called("get_errors_for_llm") =>
        /\ ~ret.raised =>
              /\ Len(ret.value.problem_descriptions) = Len(ret.value.errors)
              /\ \A i \in 1..Len(ret.value.errors) :
                    LET e == ret.value.errors[i]
                        d == ret.value.problem_descriptions[i]
                    IN  /\ d[1] = (IF "type" \in DOMAIN e /\ e["type"] = "build"
                                   THEN "Build Error - " ELSE "Checkstyle Error - ")
                        /\ {"name", "description", "category"} \subseteq DOMAIN e
                              => d = Described(e)
        /\ (~SpecificGiven /\ call.selected_categories.none) =>
              /\ ~ret.raised
              /\ ret.value.errors = <<>>
              /\ ret.value.problem_descriptions = <<>>

\* A category-based call returned a build error and a checkstyle error with
\* their two descriptions.
C13_Witness ==
    /\ Called("get_errors_for_llm")
    /\ ~SpecificGiven
    /\ ~ret.raised
    /\ Len(ret.value.errors) >= 2
    /\ Len(ret.value.problem_descriptions) = Len(ret.value.errors)
    /\ \E i, j \in 1..Len(ret.value.errors) :
          /\ ret.value.errors[i].type = "build"
          /\ ret.value.problem_descriptions[i][1] = "Build Error - "
          /\ ret.value.errors[j].type = "checkstyle"
          /\ ret.value.problem_descriptions[j][1] = "Checkstyle Error - "
          /\ ret.value.errors[j].description # <<>>

-----------------------------------------------------------------------------
(* Properties of the standard mode of the selection page                   *)

\* The problem areas offered in standard mode.
OfferedAreas == {"Style", "Logical", "Performance", "Security", "Design"}

\* The categories of a type that the mapping of an area names.
MappedTo(area, type) ==
    UNION { Range(problem_areas_config[n].value.mapping[type]) :
            n \in { m \in 1..Len(problem_areas_config) :
                       problem_areas_config[m].key = area } }

NoDuplicates(list) ==
    \A i, j \in 1..Len(list) : list[i] = list[j] => i = j

\* C14: every problem area offered in standard mode (Style, Logical,
\* Performance, Security, Design) maps to at least one underlying category,
\* and after render_simple_mode the session's selected_error_categories is
\* exactly the duplicate-free union, per type, of the mappings of the checked
\* problem areas (empty for both types when no area is checked), replacing
\* whatever selection was stored before.
C14_StandardModeSelection ==
    /\ \A area \in OfferedAreas :
          MappedTo(area, "build") \cup MappedTo(area, "checkstyle") # {}
    /\ Called("render_simple_mode") =>
          /\ DOMAIN selected_error_categories = {"build", "checkstyle"}
          /\ \A type \in {"build", "checkstyle"} :
                /\ NoDuplicates(selected_error_categories[type])
                /\ Range(selected_error_categories[type])
                      = UNION { MappedTo(area, type) : area \in call.checked }
                /\ call.checked = {} => selected_error_categories[type] = <<>>

\* Two areas that share a build category were checked: the category is
\* selected once.
C14_Witness ==
    /\ Called("render_simple_mode")
    /\ call.checked = {"Performance", "Security"}
    /\ MappedTo("Performance", "build") \cap MappedTo("Security", "build") # {}
    /\ Len(selected_error_categories["build"]) = 2
    /\ Len(selected_error_categories["checkstyle"]) = 2

\* C15: when no problem area is selected in standard mode, no errors are
\* included: the selected_error_categories produced by render_simple_mode
\* with nothing checked, passed to get_errors_for_llm without specific
\* errors (and with a count that is not negative), yields an empty error list.
C15_NothingCheckedNoErrors ==
    (/\ Called("get_errors_for_llm")
     /\ problem_areas = <<>>
     /\ selected_error_categories = render_simple_mode({}).selected_error_categories
     /\ call.selected_categories = Some(selected_error_categories)
     /\ call.specific_errors.none
     /\ call.count >= 0) =>
        /\ ~ret.raised
        /\ ret.value.errors = <<>>

====
